---- MODULE Spec2Model ----
(***************************************************************************)
(* Settlement reconciliation layer of fox_backend: the raffle, auction and *)
(* gumball controllers and the transaction journal they share.             *)
(*                                                                         *)
(* A request handler is a process in a slot; the clock value it reads with *)
(* new Date() is an input of the request.  Its first step runs the         *)
(* ledger verification, the reads of its atomic unit (one snapshot of the  *)
(* committed store) and the guards the code evaluates on them; a rejected  *)
(* request ends there.  Its second step commits the writes of the unit:    *)
(* absolute writes carry the values computed from the snapshot,            *)
(* `increment` writes act on the committed row, and the store's unique     *)
(* indexes are enforced at the insert.  The units run at the store's       *)
(* default isolation level (no isolationLevel is passed to $transaction),  *)
(* so nothing orders the snapshot of one unit after the commit of another. *)
(*                                                                         *)
(* The model follows one campaign of one type per run (variable kind) and  *)
(* the journal table, which all three controllers share.                   *)
(***************************************************************************)
EXTENDS Integers, Sequences, FiniteSets, TLC

\* ---- bounds ----
MaxTx == 2        \* transaction ids the clients submit: 1..MaxTx
NumSlots == 2     \* requests in flight at the same time
MaxTime == 3      \* a request reads the clock (new Date()) as a value of 0..MaxTime
MaxQty == 2       \* largest quantity a request names
MaxBid == 4       \* largest bid amount a request names
MaxItems == 4     \* largest totalItemsAvailable of a gumball machine

\* ---- program constants ----
MAX_RETRIES == 3

Users == {"creator", "alice"}
Players == {"alice"}   \* the wallets that bid and spin
Buyers == {"alice", "bob"}   \* the wallets that buy raffle tickets
\* the wallets that call the claim handlers: the creator, a bidder or
\* ticket buyer, and a wallet that is neither
Claimants == {"creator", "alice", "bob"}
Txids == 1..MaxTx
Slots == 1..NumSlots
Times == 0..MaxTime
PrizeIdx == {0, 1}

\* probe: the inputs and the result of a call of one of the functions that
\* read no table (verifyTransaction, calculateWinner, claimGumballTx)
VARIABLES kind, journal, raffle, entries, auction, bids, gumball, prizes, spins, calls,
          probe

vars == <<kind, journal, raffle, entries, auction, bids, gumball, prizes, spins, calls,
          probe>>
raffleStore == <<raffle, entries>>
auctionStore == <<auction, bids>>
gumballStore == <<gumball, prizes, spins>>
store == <<journal, raffle, entries, auction, bids, gumball, prizes, spins>>

\* ---- verifyTransaction ----
\* tx: the entry res.value[0] of getSignatureStatuses, NoEntry when the
\* network knows no such signature
NoEntry == [missing |-> TRUE]

verifyTransactionIgnoreErr(tx) ==
  IF tx = NoEntry THEN FALSE
  ELSE tx.confirmationStatus \in {"confirmed", "finalized"}

verifyTransaction(tx) ==
  IF tx = NoEntry \/ tx.err # "null" THEN FALSE
  ELSE tx.confirmationStatus \in {"confirmed", "finalized"}

\* one call: the await of getSignatureStatuses is not inside a try block, so
\* a rejected lookup (transport error) leaves the function as a rejection
verifyTransactionCall ==
  /\ probe.fn = "verifyTransaction" /\ probe.pc = "start"
  /\ IF probe.transport = "error"
       THEN probe' = [probe EXCEPT !.pc = "thrown"]
       ELSE probe' = [probe EXCEPT !.pc = "done", !.out = verifyTransaction(probe.tx)]
  /\ UNCHANGED <<kind, journal, raffle, entries, auction, bids, gumball, prizes, spins, calls>>

\* ---- the journal (LedgerTransaction rows) ----
HasTx(j, t) == \E i \in 1..Len(j) : j[i].transactionId = t

Row(t, type, sender, n) == [transactionId |-> t, type |-> type, sender |-> sender, n |-> n]

\* the unique index on transactions.transactionId: an insert of a key that
\* is already present fails and rolls the unit back
UniqueKeyOff(j, t) == TRUE

UniqueTransactionId(j, t) == ~HasTx(j, t)

\* tx.transaction.create
transactionCreate(j, row) == Append(j, row)

\* ---- request slots ----
NoSnap == [none |-> TRUE]

\* verified: what verifyTransaction answers for the transaction id of the
\* request; every handler but createRaffle asks before it opens its unit
Call(pc, op, tx, user, a, b, snap, retry) ==
  [pc |-> pc, op |-> op, tx |-> tx, user |-> user, a |-> a, b |-> b,
   snap |-> snap, retry |-> retry, verified |-> TRUE]

IdleCall == Call("idle", "none", 0, "none", 0, 0, NoSnap, 0)

\* responseHandler: the HTTP status of the answer; error answers 400 to a
\* string and 500 to a thrown object
success == 200

error(isString) == IF isString THEN 400 ELSE 500

\* the request is answered with the message out (responseHandler.success or
\* responseHandler.error) and its slot is free again
Reply(c, op, t, out) ==
  /\ calls' = [calls EXCEPT ![c] = IdleCall]
  /\ UNCHANGED probe

Enter(c, op, t, u, a, b, snap, retry) ==
  /\ calls' = [calls EXCEPT ![c] = Call("unit", op, t, u, a, b, snap, retry)]
  /\ UNCHANGED probe

\* the unit is opened by a handler that has not asked verifyTransaction
EnterUnverified(c, op, t, u, a, b, snap, confirmed) ==
  /\ calls' = [calls EXCEPT ![c] =
                 [Call("unit", op, t, u, a, b, snap, 0) EXCEPT !.verified = confirmed]]
  /\ UNCHANGED probe

\* a new request takes the lowest free slot (the slots are interchangeable)
Free(c) == calls[c].pc = "idle" /\ \A d \in Slots : d < c => calls[d].pc # "idle"

InUnit(c, op) == calls[c].pc = "unit" /\ calls[c].op = op

\* ---- raffle rows ----
NoRaffle == [id |-> 0]

Raffle(creator, st, sold, createdAt, endsAt) ==
  [id |-> 1, createdBy |-> creator, state |-> st, ticketSold |-> sold,
   createdAt |-> createdAt, endsAt |-> endsAt,
   ticketSupply |-> 3, maxEntries |-> 2, ticketPrice |-> 1,
   numberOfWinners |-> 2, winnerPicked |-> FALSE, winners |-> {}, claimed |-> 0,
   ticketAmountClaimedByCreator |-> FALSE]

Entry(u, q) == [userAddress |-> u, quantity |-> q]

\* tx.entry.findFirst({raffleId, userAddress}): the id of the first entry of u, 0 if none
FirstEntry(es, u) ==
  IF \E i \in 1..Len(es) : es[i].userAddress = u
    THEN CHOOSE i \in 1..Len(es) :
           /\ es[i].userAddress = u
           /\ \A k \in 1..(i - 1) : es[k].userAddress # u
    ELSE 0

\* ---- createRaffle ----
createRaffleGuard(j, t, createdAt, endsAt) ==
  IF endsAt < createdAt THEN "Invalid endsAt"
  ELSE IF HasTx(j, t) THEN "Transaction already exists"
  ELSE "ok"

RaffleInitialState(createdAt, at) == IF createdAt <= at THEN "Active" ELSE "Initialized"

createRaffle(c) ==
  /\ kind = "raffle"
  /\ Free(c)
  /\ \E t \in Txids, s \in {1}, e \in {0, 1, 2}, at \in Times, confirmed \in BOOLEAN :
       LET msg == createRaffleGuard(journal, t, s, e) IN
       IF msg = "ok"
         THEN EnterUnverified(c, "createRaffle", t, "creator", s, e,
                              [state |-> RaffleInitialState(s, at), at |-> at], confirmed)
         ELSE Reply(c, "createRaffle", t, msg)
  /\ UNCHANGED <<kind, store>>

\* raffle ids are generated by the store: the create never collides; the
\* model follows the first raffle only
createRaffleCommit(c) ==
  /\ InUnit(c, "createRaffle")
  /\ LET r == calls[c] IN
     IF UniqueTransactionId(journal, r.tx)
       THEN /\ raffle' = IF raffle = NoRaffle THEN Raffle(r.user, r.snap.state, 0, r.a, r.b) ELSE raffle
            /\ journal' = transactionCreate(journal, Row(r.tx, "RAFFLE_CREATION", r.user, 0))
            /\ Reply(c, r.op, r.tx, "ok")
       ELSE /\ UNCHANGED <<raffle, journal>>
            /\ Reply(c, r.op, r.tx, "P2002")
  /\ UNCHANGED <<kind, entries, auctionStore, gumballStore>>

\* ---- cancelRaffle ----
cancelRaffleGuard(r, u, confirmed) ==
  IF ~confirmed THEN "Invalid transaction"
  ELSE IF r = NoRaffle \/ r.createdBy # u THEN "Raffle not found"
  ELSE IF r.ticketSold # 0 THEN "Raffle has tickets sold, cannot be cancelled"
  ELSE "ok"

cancelRaffle(c) ==
  /\ kind = "raffle"
  /\ Free(c)
  /\ \E t \in Txids, u \in Users, confirmed \in BOOLEAN :
       LET msg == cancelRaffleGuard(raffle, u, confirmed) IN
       IF msg = "ok"
         THEN Enter(c, "cancelRaffle", t, u, 0, 0, NoSnap, 0)
         ELSE Reply(c, "cancelRaffle", t, msg)
  /\ UNCHANGED <<kind, store>>

cancelRaffleCommit(c) ==
  /\ InUnit(c, "cancelRaffle")
  /\ LET r == calls[c] IN
     IF raffle # NoRaffle /\ UniqueTransactionId(journal, r.tx)
       THEN /\ raffle' = [raffle EXCEPT !.state = "Cancelled"]
            /\ journal' = transactionCreate(journal, Row(r.tx, "RAFFLE_CANCEL", r.user, 0))
            /\ Reply(c, r.op, r.tx, "ok")
       ELSE /\ UNCHANGED <<raffle, journal>>
            /\ Reply(c, r.op, r.tx, "P2002")
  /\ UNCHANGED <<kind, entries, auctionStore, gumballStore>>

\* ---- buyTicket ----
\* (the handler reads no clock: the time at of the request is kept in the
\* call, in b, only for the properties that speak of it)
\* the journal lookup runs after the writes of the unit; its throw rolls them
\* back, so the unit writes nothing unless every guard passes
buyTicketGuardNoCapacity(j, r, es, t, u, quantity, confirmed) ==
  LET e == FirstEntry(es, u) IN
  IF ~confirmed THEN "Invalid transaction"
  ELSE IF r = NoRaffle \/ r.state # "Active" THEN "Raffle not found or not active"
  ELSE IF quantity > r.maxEntries THEN "Quantity exceeds max entries"
  ELSE IF e # 0 /\ es[e].quantity + quantity > r.maxEntries THEN "Quantity exceeds max entries"
  ELSE IF HasTx(j, t) THEN "Transaction already exists"
  ELSE "ok"

buyTicketGuard(j, r, es, t, u, quantity, confirmed) ==
  LET e == FirstEntry(es, u) IN
  IF ~confirmed THEN "Invalid transaction"
  ELSE IF r = NoRaffle \/ r.state # "Active" THEN "Raffle not found or not active"
  ELSE IF r.ticketSold + quantity > r.ticketSupply THEN "Quantity exceeds ticket supply"
  ELSE IF quantity > r.maxEntries THEN "Quantity exceeds max entries"
  ELSE IF e # 0 /\ es[e].quantity + quantity > r.maxEntries THEN "Quantity exceeds max entries"
  ELSE IF e # 0 /\ es[e].quantity + quantity > r.ticketSupply THEN "Quantity exceeds ticket sold"
  ELSE IF HasTx(j, t) THEN "Transaction already exists"
  ELSE "ok"

\* the answer of buyTicket to the outcome msg of its guards: the early
\* returns pass a string, the catch block passes the thrown object
buyTicketResponse(msg) ==
  IF msg = "ok" THEN success
  ELSE error(msg \in {"Invalid payload", "Invalid transaction"})

buyTicket(c) ==
  /\ kind = "raffle"
  /\ Free(c)
  /\ \E t \in Txids, u \in Buyers, q \in 1..MaxQty, at \in Times, confirmed \in BOOLEAN :
       LET msg == buyTicketGuard(journal, raffle, entries, t, u, q, confirmed)
           e == FirstEntry(entries, u) IN
       IF msg = "ok"
         THEN Enter(c, "buyTicket", t, u, q, at,
                    [ticketSold |-> raffle.ticketSold, entryId |-> e,
                     quantity |-> IF e = 0 THEN 0 ELSE entries[e].quantity], 0)
         ELSE Reply(c, "buyTicket", t, msg)
  /\ UNCHANGED <<kind, store>>

\* the journal's key is the only uniqueness the store enforces between
\* units: a second entry row of the same wallet is accepted
buyTicketCommit(c) ==
  /\ InUnit(c, "buyTicket")
  /\ LET r == calls[c] IN
     IF raffle # NoRaffle /\ UniqueTransactionId(journal, r.tx)
       THEN /\ entries' = IF r.snap.entryId = 0
                            THEN Append(entries, Entry(r.user, r.a))
                            ELSE [entries EXCEPT ![r.snap.entryId] =
                                    [@ EXCEPT !.quantity = r.snap.quantity + r.a]]
            /\ raffle' = [raffle EXCEPT !.ticketSold = r.snap.ticketSold + r.a]
            /\ journal' = transactionCreate(journal, Row(r.tx, "RAFFLE_ENTRY", r.user, r.a))
            /\ Reply(c, r.op, r.tx, "ok")
       ELSE /\ UNCHANGED <<raffle, entries, journal>>
            /\ Reply(c, r.op, r.tx, "P2002")
  /\ UNCHANGED <<kind, auctionStore, gumballStore>>

\* ---- claimPrize (raffle) ----
HasClaimed(j, type, u) == \E i \in DOMAIN j : j[i].type = type /\ j[i].sender = u

raffleClaimPrizeGuardNoWinner(j, r, t, u, confirmed) ==
  IF ~confirmed THEN "Invalid transaction"
  ELSE IF r = NoRaffle THEN "Raffle not found"
  ELSE IF r.state # "SuccessEnded" THEN "Raffle has not ended successfully"
  ELSE IF ~r.winnerPicked THEN "Winners have not been picked yet"
  ELSE IF r.claimed >= r.numberOfWinners THEN "All prizes have already been claimed"
  ELSE IF HasTx(j, t) THEN "Transaction already exists"
  ELSE IF HasClaimed(j, "RAFFLE_CLAIM", u) THEN "User has already claimed their prize"
  ELSE "ok"

raffleClaimPrizeGuard(j, r, t, u, confirmed) ==
  IF ~confirmed THEN "Invalid transaction"
  ELSE IF r = NoRaffle THEN "Raffle not found"
  ELSE IF r.state # "SuccessEnded" THEN "Raffle has not ended successfully"
  ELSE IF ~r.winnerPicked THEN "Winners have not been picked yet"
  ELSE IF u \notin r.winners THEN "User is not a winner of this raffle"
  ELSE IF r.claimed >= r.numberOfWinners THEN "All prizes have already been claimed"
  ELSE IF HasTx(j, t) THEN "Transaction already exists"
  ELSE IF HasClaimed(j, "RAFFLE_CLAIM", u) THEN "User has already claimed their prize"
  ELSE "ok"

raffleClaimPrize(c) ==
  /\ kind = "raffle"
  /\ Free(c)
  /\ \E t \in Txids, u \in Claimants, confirmed \in BOOLEAN :
       LET msg == raffleClaimPrizeGuard(journal, raffle, t, u, confirmed) IN
       IF msg = "ok"
         THEN Enter(c, "raffleClaimPrize", t, u, 0, 0, [claimed |-> raffle.claimed], 0)
         ELSE Reply(c, "raffleClaimPrize", t, msg)
  /\ UNCHANGED <<kind, store>>

raffleClaimPrizeCommit(c) ==
  /\ InUnit(c, "raffleClaimPrize")
  /\ LET r == calls[c] IN
     IF raffle # NoRaffle /\ UniqueTransactionId(journal, r.tx)
       THEN /\ raffle' = [raffle EXCEPT !.claimed = r.snap.claimed + 1]
            /\ journal' = transactionCreate(journal, Row(r.tx, "RAFFLE_CLAIM", r.user, 0))
            /\ Reply(c, r.op, r.tx, "ok")
       ELSE /\ UNCHANGED <<raffle, journal>>
            /\ Reply(c, r.op, r.tx, "P2002")
  /\ UNCHANGED <<kind, entries, auctionStore, gumballStore>>

\* ---- claimTicketAmount ----
claimTicketAmountGuard(j, r, t, u, confirmed) ==
  IF ~confirmed THEN "Invalid transaction"
  ELSE IF r = NoRaffle THEN "Raffle not found"
  ELSE IF r.createdBy # u THEN "You are not the creator of this raffle"
  ELSE IF r.ticketAmountClaimedByCreator
    THEN "Ticket amount has already been claimed by the creator"
  ELSE IF HasTx(j, t) THEN "Transaction already exists"
  ELSE "ok"

\* the answers of claimTicketAmount, in the order it calls responseHandler,
\* to the outcome msg of its guards.  A guard inside the unit answers with
\* return responseHandler.error(...): that returns from the callback only,
\* the unit ends without an exception and the handler goes on to
\* responseHandler.success.
claimTicketAmountReports(msg) ==
  IF msg = "ok" THEN <<[status |-> success, error |-> "null"]>>
  ELSE IF msg = "Invalid transaction" THEN <<[status |-> error(TRUE), error |-> msg]>>
  ELSE <<[status |-> error(TRUE), error |-> msg], [status |-> success, error |-> "null"]>>

claimTicketAmount(c) ==
  /\ kind = "raffle"
  /\ Free(c)
  /\ \E t \in Txids, u \in Claimants, confirmed \in BOOLEAN :
       LET msg == claimTicketAmountGuard(journal, raffle, t, u, confirmed) IN
       IF msg = "ok"
         THEN Enter(c, "claimTicketAmount", t, u, 0, 0, [ticketSold |-> raffle.ticketSold], 0)
         ELSE Reply(c, "claimTicketAmount", t, claimTicketAmountReports(msg))
  /\ UNCHANGED <<kind, store>>

claimTicketAmountCommit(c) ==
  /\ InUnit(c, "claimTicketAmount")
  /\ LET r == calls[c] IN
     IF raffle # NoRaffle /\ UniqueTransactionId(journal, r.tx)
       THEN /\ raffle' = [raffle EXCEPT !.ticketAmountClaimedByCreator = TRUE]
            /\ journal' = transactionCreate(journal,
                             Row(r.tx, "RAFFLE_CLAIM_TICKET_AMOUNT", r.user, r.snap.ticketSold))
            /\ Reply(c, r.op, r.tx, claimTicketAmountReports("ok"))
       ELSE /\ UNCHANGED <<raffle, journal>>
            /\ Reply(c, r.op, r.tx, "P2002")
  /\ UNCHANGED <<kind, entries, auctionStore, gumballStore>>

\* ---- deleteRaffle ----
\* The handler reads the raffle and deletes it in two separate statements,
\* outside any unit, and verifies no transaction.  What the store does with
\* the rows that reference a deleted campaign (entries, bids, prizes, spins)
\* is fixed by the referential actions of the schema: the delete either is
\* refused while such rows exist (P2003) or removes them with the campaign
\* (cascade).  Both outcomes are modelled.  The model follows the first
\* campaign only: once it is deleted no further request is followed.
deleteRaffleGuard(r, u) ==
  IF r = NoRaffle THEN "Raffle not found"
  ELSE IF r.createdBy # u THEN "You are not the creator of this raffle"
  ELSE "ok"

deleteRaffle(c) ==
  /\ kind = "raffle"
  /\ Free(c)
  /\ \E u \in Users :
       LET msg == deleteRaffleGuard(raffle, u) IN
       IF msg = "ok"
         THEN EnterUnverified(c, "deleteRaffle", 0, u, 0, 0, NoSnap, FALSE)
         ELSE Reply(c, "deleteRaffle", 0, msg)
  /\ UNCHANGED <<kind, store>>

deleteRaffleCommit(c) ==
  /\ InUnit(c, "deleteRaffle")
  /\ \E cascade \in BOOLEAN :
       IF raffle # NoRaffle /\ (entries = <<>> \/ cascade)
         THEN /\ raffle' = NoRaffle
              /\ entries' = <<>>
              /\ kind' = "deleted"
              /\ Reply(c, "deleteRaffle", 0, "ok")
         ELSE /\ UNCHANGED <<kind, raffle, entries>>
              /\ Reply(c, "deleteRaffle", 0, "P2003")
  /\ UNCHANGED <<journal, auctionStore, gumballStore>>

\* ---- auction rows ----
NoAuction == [id |-> 0]

Auction(creator, st, endsAt, any, amount, bidder) ==
  [id |-> 1, createdBy |-> creator, status |-> st, endsAt |-> endsAt,
   timeExtension |-> 1, reservePrice |-> 1, bidIncrementPercent |-> 50,
   hasAnyBid |-> any, highestBidAmount |-> amount, highestBidderWallet |-> bidder]

Bid(u, amount) == [bidderWallet |-> u, bidAmount |-> amount]

\* ---- createAuction ----
createAuctionGuard(j, t, startsAt, endsAt, confirmed) ==
  IF endsAt < startsAt THEN "Invalid endsAt"
  ELSE IF ~confirmed THEN "Transaction not confirmed"
  ELSE IF HasTx(j, t) THEN "Transaction already exists"
  ELSE "ok"

AuctionInitialStatusLate(startsAt, at) == IF startsAt < at THEN "ACTIVE" ELSE "INITIALIZED"

AuctionInitialStatus(startsAt, at) == IF startsAt <= at THEN "ACTIVE" ELSE "INITIALIZED"

createAuction(c) ==
  /\ kind = "auction"
  /\ Free(c)
  /\ \E t \in Txids, s \in {1}, e \in {0, 1, 2}, at \in Times, confirmed \in BOOLEAN :
       LET msg == createAuctionGuard(journal, t, s, e, confirmed) IN
       IF msg = "ok"
         THEN Enter(c, "createAuction", t, "creator", s, e, [status |-> AuctionInitialStatus(s, at), at |-> at], 0)
         ELSE Reply(c, "createAuction", t, msg)
  /\ UNCHANGED <<kind, store>>

createAuctionCommit(c) ==
  /\ InUnit(c, "createAuction")
  /\ LET r == calls[c] IN
     IF auction = NoAuction /\ UniqueTransactionId(journal, r.tx)
       THEN /\ auction' = Auction(r.user, r.snap.status, r.b, FALSE, 0, "none")
            /\ journal' = transactionCreate(journal, Row(r.tx, "AUCTION_CREATION", r.user, 0))
            /\ Reply(c, r.op, r.tx, "ok")
       ELSE /\ UNCHANGED <<auction, journal>>
            /\ Reply(c, r.op, r.tx, "P2002")
  /\ UNCHANGED <<kind, bids, raffleStore, gumballStore>>

\* ---- cancelAuction ----
cancelAuctionGuard(a, u, confirmed) ==
  IF ~confirmed THEN "Invalid transaction"
  ELSE IF a = NoAuction \/ a.createdBy # u THEN "Auction not found"
  ELSE IF a.hasAnyBid THEN "Auction has bids, cannot be cancelled"
  ELSE "ok"

cancelAuction(c) ==
  /\ kind = "auction"
  /\ Free(c)
  /\ \E t \in Txids, u \in Users, confirmed \in BOOLEAN :
       LET msg == cancelAuctionGuard(auction, u, confirmed) IN
       IF msg = "ok"
         THEN Enter(c, "cancelAuction", t, u, 0, 0, NoSnap, 0)
         ELSE Reply(c, "cancelAuction", t, msg)
  /\ UNCHANGED <<kind, store>>

cancelAuctionCommit(c) ==
  /\ InUnit(c, "cancelAuction")
  /\ LET r == calls[c] IN
     IF auction # NoAuction /\ UniqueTransactionId(journal, r.tx)
       THEN /\ auction' = [auction EXCEPT !.status = "CANCELLED"]
            /\ journal' = transactionCreate(journal, Row(r.tx, "AUCTION_CANCEL", r.user, 0))
            /\ Reply(c, r.op, r.tx, "ok")
       ELSE /\ UNCHANGED <<auction, journal>>
            /\ Reply(c, r.op, r.tx, "P2002")
  /\ UNCHANGED <<kind, bids, raffleStore, gumballStore>>

\* ---- placeBid ----
\* BigInt arithmetic: the division truncates
MinBid(a) ==
  a.highestBidAmount + (a.highestBidAmount * (a.bidIncrementPercent * 100)) \div 10000

placeBidGuardNoStatus(j, a, t, amount, at, confirmed) ==
  IF ~confirmed THEN "Invalid transaction"
  ELSE IF a = NoAuction THEN "Auction not found or not active"
  ELSE IF a.endsAt < at THEN "Auction has ended"
  ELSE IF a.reservePrice # 0 /\ amount < a.reservePrice THEN "Bid amount is below reserve price"
  ELSE IF a.hasAnyBid /\ amount <= a.highestBidAmount
    THEN "Bid amount must be higher than current highest bid"
  ELSE IF a.hasAnyBid /\ a.bidIncrementPercent # 0 /\ amount < MinBid(a)
    THEN "Bid must be at least bidIncrementPercent% higher than current bid"
  ELSE IF HasTx(j, t) THEN "Transaction already exists"
  ELSE "ok"

placeBidGuard(j, a, t, amount, at, confirmed) ==
  IF ~confirmed THEN "Invalid transaction"
  ELSE IF a = NoAuction \/ a.status # "ACTIVE" THEN "Auction not found or not active"
  ELSE IF a.endsAt < at THEN "Auction has ended"
  ELSE IF a.reservePrice # 0 /\ amount < a.reservePrice THEN "Bid amount is below reserve price"
  ELSE IF a.hasAnyBid /\ amount <= a.highestBidAmount
    THEN "Bid amount must be higher than current highest bid"
  ELSE IF a.hasAnyBid /\ a.bidIncrementPercent # 0 /\ amount < MinBid(a)
    THEN "Bid must be at least bidIncrementPercent% higher than current bid"
  ELSE IF HasTx(j, t) THEN "Transaction already exists"
  ELSE "ok"

NewEndsAt(a, at) ==
  IF a.timeExtension # 0 /\ a.endsAt - at < a.timeExtension
    THEN at + a.timeExtension
    ELSE a.endsAt

placeBid(c) ==
  /\ kind = "auction"
  /\ Free(c)
  /\ \E t \in Txids, u \in Players, amount \in 1..MaxBid, at \in Times, confirmed \in BOOLEAN :
       LET msg == placeBidGuard(journal, auction, t, amount, at, confirmed) IN
       IF msg = "ok"
         THEN Enter(c, "placeBid", t, u, amount, at, [newEndsAt |-> NewEndsAt(auction, at)], 0)
         ELSE Reply(c, "placeBid", t, msg)
  /\ UNCHANGED <<kind, store>>

placeBidCommit(c) ==
  /\ InUnit(c, "placeBid")
  /\ LET r == calls[c] IN
     IF auction # NoAuction /\ UniqueTransactionId(journal, r.tx)
       THEN /\ journal' = transactionCreate(journal, Row(r.tx, "AUCTION_BID", r.user, r.a))
            /\ bids' = Append(bids, Bid(r.user, r.a))
            /\ auction' = [auction EXCEPT !.highestBidAmount = r.a,
                                          !.highestBidderWallet = r.user,
                                          !.hasAnyBid = TRUE,
                                          !.endsAt = r.snap.newEndsAt]
            /\ Reply(c, r.op, r.tx, "ok")
       ELSE /\ UNCHANGED <<auction, bids, journal>>
            /\ Reply(c, r.op, r.tx, "P2002")
  /\ UNCHANGED <<kind, raffleStore, gumballStore>>

\* ---- claimAuction ----
claimAuctionGuardNoStatus(j, a, t, u, confirmed) ==
  IF ~confirmed THEN "Invalid transaction"
  ELSE IF a = NoAuction THEN "Auction not found"
  ELSE IF a.highestBidderWallet # u /\ a.createdBy # u
    THEN "User is not the winner or creator of this auction"
  ELSE IF HasTx(j, t) THEN "Transaction already exists"
  ELSE IF HasClaimed(j, "AUCTION_CLAIM", u) THEN "User has already claimed from this auction"
  ELSE "ok"

claimAuctionGuard(j, a, t, u, confirmed) ==
  IF ~confirmed THEN "Invalid transaction"
  ELSE IF a = NoAuction THEN "Auction not found"
  ELSE IF a.status # "COMPLETED_SUCCESSFULLY" THEN "Auction has not ended successfully"
  ELSE IF a.highestBidderWallet # u /\ a.createdBy # u
    THEN "User is not the winner or creator of this auction"
  ELSE IF HasTx(j, t) THEN "Transaction already exists"
  ELSE IF HasClaimed(j, "AUCTION_CLAIM", u) THEN "User has already claimed from this auction"
  ELSE "ok"

claimAuction(c) ==
  /\ kind = "auction"
  /\ Free(c)
  /\ \E t \in Txids, u \in Claimants, confirmed \in BOOLEAN :
       LET msg == claimAuctionGuard(journal, auction, t, u, confirmed) IN
       IF msg = "ok"
         THEN Enter(c, "claimAuction", t, u, 0, 0, NoSnap, 0)
         ELSE Reply(c, "claimAuction", t, msg)
  /\ UNCHANGED <<kind, store>>

claimAuctionCommit(c) ==
  /\ InUnit(c, "claimAuction")
  /\ LET r == calls[c] IN
     IF UniqueTransactionId(journal, r.tx)
       THEN /\ journal' = transactionCreate(journal, Row(r.tx, "AUCTION_CLAIM", r.user, 0))
            /\ Reply(c, r.op, r.tx, "ok")
       ELSE /\ UNCHANGED journal
            /\ Reply(c, r.op, r.tx, "P2002")
  /\ UNCHANGED <<kind, auction, bids, raffleStore, gumballStore>>

\* ---- deleteAuction ----
deleteAuctionGuard(a, u) ==
  IF a = NoAuction THEN "Auction not found"
  ELSE IF a.createdBy # u THEN "You are not the creator of this auction"
  ELSE IF a.hasAnyBid THEN "Cannot delete auction with bids"
  ELSE "ok"

deleteAuction(c) ==
  /\ kind = "auction"
  /\ Free(c)
  /\ \E u \in Users :
       LET msg == deleteAuctionGuard(auction, u) IN
       IF msg = "ok"
         THEN EnterUnverified(c, "deleteAuction", 0, u, 0, 0, NoSnap, FALSE)
         ELSE Reply(c, "deleteAuction", 0, msg)
  /\ UNCHANGED <<kind, store>>

deleteAuctionCommit(c) ==
  /\ InUnit(c, "deleteAuction")
  /\ \E cascade \in BOOLEAN :
       IF auction # NoAuction /\ (bids = <<>> \/ cascade)
         THEN /\ auction' = NoAuction
              /\ bids' = <<>>
              /\ kind' = "deleted"
              /\ Reply(c, "deleteAuction", 0, "ok")
         ELSE /\ UNCHANGED <<kind, auction, bids>>
              /\ Reply(c, "deleteAuction", 0, "P2003")
  /\ UNCHANGED <<journal, raffleStore, gumballStore>>

\* ---- gumball rows ----
NoGumball == [id |-> 0]

Gumball(creator, st, startTime, endTime, total, sold, buyers, added, bb, act) ==
  [id |-> 1, creatorAddress |-> creator, status |-> st, manualStart |-> FALSE,
   startTime |-> startTime, endTime |-> endTime,
   totalTickets |-> total, ticketsSold |-> sold, ticketPrice |-> 1,
   totalProceeds |-> sold, maxProceeds |-> 1,
   uniqueBuyers |-> buyers, prizesAdded |-> added, minPrizes |-> 1, maxPrizes |-> 3,
   buyBackEnabled |-> bb, activatedAt |-> act]

Prize(q, claimed) == [quantity |-> q, quantityClaimed |-> claimed, creatorClaimed |-> FALSE]

SpinWithPrize(u) == [spinnerAddress |-> u, isPendingClaim |-> TRUE, prizeId |-> 0]

Spin(u) == [spinnerAddress |-> u, isPendingClaim |-> TRUE, prizeId |-> -1]

SumQuantity(p) ==
  LET RECURSIVE S(_)
      S(D) == IF D = {} THEN 0
              ELSE LET k == CHOOSE x \in D : TRUE IN p[k].quantity + S(D \ {k})
  IN S(DOMAIN p)

SumClaimed(p) ==
  LET RECURSIVE S(_)
      S(D) == IF D = {} THEN 0
              ELSE LET k == CHOOSE x \in D : TRUE IN p[k].quantityClaimed + S(D \ {k})
  IN S(DOMAIN p)

NoPrizes == [k \in {} |-> Prize(0, 0)]

\* ---- createGumball ----
createGumballGuard(j, t, startTime, endTime, confirmed) ==
  IF endTime <= startTime THEN "End time must be after start time"
  ELSE IF ~confirmed THEN "Transaction not confirmed"
  ELSE IF HasTx(j, t) THEN "Transaction already exists"
  ELSE "ok"

InitialStatus(startTime, at) == IF startTime <= at THEN "ACTIVE" ELSE "INITIALIZED"

createGumball(c) ==
  /\ kind = "gumball"
  /\ Free(c)
  /\ \E t \in Txids, u \in {"creator"}, s \in {1}, e \in {1, 2}, at \in Times, confirmed \in BOOLEAN :
       LET msg == createGumballGuard(journal, t, s, e, confirmed) IN
       IF msg = "ok"
         THEN Enter(c, "createGumball", t, u, s, e, [status |-> InitialStatus(s, at), at |-> at], 0)
         ELSE Reply(c, "createGumball", t, msg)
  /\ UNCHANGED <<kind, store>>

createGumballCommit(c) ==
  /\ InUnit(c, "createGumball")
  /\ LET r == calls[c] IN
     IF gumball = NoGumball /\ UniqueTransactionId(journal, r.tx)
       THEN /\ gumball' = Gumball(r.user, r.snap.status, r.a, r.b, 1, 0, 0, 0, FALSE, -1)
            /\ journal' = transactionCreate(journal, Row(r.tx, "GUMBALL_CREATION", r.user, 0))
            /\ Reply(c, r.op, r.tx, "ok")
       ELSE /\ UNCHANGED <<gumball, journal>>
            /\ Reply(c, r.op, r.tx, "P2002")
  /\ UNCHANGED <<kind, prizes, spins, raffleStore, auctionStore>>

\* ---- confirmGumballCreation ----
confirmGumballCreationGuard(j, g, t, confirmed) ==
  IF ~confirmed THEN "Transaction not confirmed"
  ELSE IF HasTx(j, t) THEN "Transaction already exists"
  ELSE IF g = NoGumball THEN "Gumball not found"
  ELSE "ok"

confirmGumballCreation(c) ==
  /\ kind = "gumball"
  /\ Free(c)
  /\ \E t \in Txids, at \in Times, confirmed \in BOOLEAN :
       LET msg == confirmGumballCreationGuard(journal, gumball, t, confirmed) IN
       IF msg = "ok"
         THEN Enter(c, "confirmGumballCreation", t, gumball.creatorAddress, 0, 0,
                    [status |-> InitialStatus(gumball.startTime, at)], 0)
         ELSE Reply(c, "confirmGumballCreation", t, msg)
  /\ UNCHANGED <<kind, store>>

confirmGumballCreationCommit(c) ==
  /\ InUnit(c, "confirmGumballCreation")
  /\ LET r == calls[c] IN
     IF gumball # NoGumball /\ UniqueTransactionId(journal, r.tx)
       THEN /\ gumball' = [gumball EXCEPT !.status = r.snap.status]
            /\ journal' = transactionCreate(journal, Row(r.tx, "GUMBALL_CREATION", r.user, 0))
            /\ Reply(c, r.op, r.tx, "ok")
       ELSE /\ UNCHANGED <<gumball, journal>>
            /\ Reply(c, r.op, r.tx, "P2002")
  /\ UNCHANGED <<kind, prizes, spins, raffleStore, auctionStore>>

\* ---- activateGumball ----
activateGumballGuard(g, u, confirmed) ==
  IF ~confirmed THEN "Transaction not confirmed"
  ELSE IF g = NoGumball \/ g.creatorAddress # u THEN "Gumball not found or not owned by user"
  ELSE IF g.status = "ACTIVE" THEN "Gumbal already activated"
  ELSE IF g.prizesAdded < g.minPrizes THEN "Gumball must have at least minPrizes prizes to activate"
  ELSE "ok"

activateGumball(c) ==
  /\ kind = "gumball"
  /\ Free(c)
  /\ \E t \in Txids, u \in Users, at \in Times, confirmed \in BOOLEAN :
       LET msg == activateGumballGuard(gumball, u, confirmed) IN
       IF msg = "ok"
         THEN Enter(c, "activateGumball", t, u, 0, 0, [at |-> at], 0)
         ELSE Reply(c, "activateGumball", t, msg)
  /\ UNCHANGED <<kind, store>>

activateGumballCommit(c) ==
  /\ InUnit(c, "activateGumball")
  /\ LET r == calls[c] IN
     IF gumball # NoGumball /\ UniqueTransactionId(journal, r.tx)
       THEN /\ gumball' = [gumball EXCEPT !.status = "ACTIVE", !.activatedAt = r.snap.at]
            /\ journal' = transactionCreate(journal, Row(r.tx, "GUMBALL_ACTIVATE", r.user, 0))
            /\ Reply(c, r.op, r.tx, "ok")
       ELSE /\ UNCHANGED <<gumball, journal>>
            /\ Reply(c, r.op, r.tx, "P2002")
  /\ UNCHANGED <<kind, prizes, spins, raffleStore, auctionStore>>

\* ---- updateBuyBackSettings ----
updateBuyBackSettingsGuard(g, u, enabled, confirmed) ==
  IF ~confirmed THEN "Transaction not confirmed"
  ELSE IF g = NoGumball \/ g.creatorAddress # u THEN "Gumball not found or not owned by user"
  ELSE IF g.status = "ACTIVE" /\ ~g.buyBackEnabled /\ enabled
    THEN "Cannot enable buy backs after gumball is live"
  ELSE "ok"

updateBuyBackSettings(c) ==
  /\ kind = "gumball"
  /\ Free(c)
  /\ \E t \in Txids, u \in Users, enabled \in BOOLEAN, confirmed \in BOOLEAN :
       LET msg == updateBuyBackSettingsGuard(gumball, u, enabled, confirmed) IN
       IF msg = "ok"
         THEN Enter(c, "updateBuyBackSettings", t, u, 0, 0, [enabled |-> enabled], 0)
         ELSE Reply(c, "updateBuyBackSettings", t, msg)
  /\ UNCHANGED <<kind, store>>

updateBuyBackSettingsCommit(c) ==
  /\ InUnit(c, "updateBuyBackSettings")
  /\ LET r == calls[c] IN
     IF gumball # NoGumball /\ UniqueTransactionId(journal, r.tx)
       THEN /\ gumball' = [gumball EXCEPT !.buyBackEnabled = r.snap.enabled]
            /\ journal' = transactionCreate(journal, Row(r.tx, "GUMBALL_UPDATE", r.user, 0))
            /\ Reply(c, r.op, r.tx, "ok")
       ELSE /\ UNCHANGED <<gumball, journal>>
            /\ Reply(c, r.op, r.tx, "P2002")
  /\ UNCHANGED <<kind, prizes, spins, raffleStore, auctionStore>>

\* ---- addPrize ----
addPrizeGuard(j, g, p, t, u, quantity, confirmed) ==
  IF ~confirmed THEN "Transaction not confirmed"
  ELSE IF HasTx(j, t) THEN "Transaction already exists"
  ELSE IF g = NoGumball \/ g.creatorAddress # u THEN "Gumball not found or not owned by user"
  ELSE IF g.status # "INITIALIZED" /\ g.status # "NONE"
    THEN "Cannot add prizes to active or completed gumball"
  ELSE IF SumQuantity(p) + quantity > g.maxPrizes
    THEN "Adding this prize would exceed maximum prize count"
  ELSE "ok"

addPrize(c) ==
  /\ kind = "gumball"
  /\ Free(c)
  /\ \E t \in Txids, u \in Users, k \in PrizeIdx, q \in 1..MaxQty, confirmed \in BOOLEAN :
       LET msg == addPrizeGuard(journal, gumball, prizes, t, u, q, confirmed) IN
       IF msg = "ok"
         THEN Enter(c, "addPrize", t, u, k, q, [prizesAdded |-> gumball.prizesAdded], 0)
         ELSE Reply(c, "addPrize", t, msg)
  /\ UNCHANGED <<kind, store>>

addPrizeCommit(c) ==
  /\ InUnit(c, "addPrize")
  /\ LET r == calls[c] IN
     IF gumball # NoGumball /\ r.a \notin DOMAIN prizes /\ UniqueTransactionId(journal, r.tx)
       THEN /\ prizes' = [k \in DOMAIN prizes \cup {r.a} |->
                            IF k = r.a THEN Prize(r.b, 0) ELSE prizes[k]]
            /\ gumball' = [gumball EXCEPT !.prizesAdded = r.snap.prizesAdded + 1,
                                          !.totalTickets = @ + r.b]
            /\ journal' = transactionCreate(journal, Row(r.tx, "GUMBALL_PRIZE_ADD", r.user, r.b))
            /\ Reply(c, r.op, r.tx, "ok")
       ELSE /\ UNCHANGED <<gumball, prizes, journal>>
            /\ Reply(c, r.op, r.tx, "P2002")
  /\ UNCHANGED <<kind, spins, raffleStore, auctionStore>>

\* ---- spin ----
spinGuardNoLookup(j, g, t, at) ==
  IF g = NoGumball THEN "Gumball not found"
  ELSE IF g.status # "ACTIVE" THEN "Gumball is not active"
  ELSE IF ~g.manualStart /\ at < g.startTime THEN "Gumball has not started yet"
  ELSE IF at > g.endTime THEN "Gumball has ended"
  ELSE IF g.ticketsSold >= g.totalTickets THEN "All tickets have been sold"
  ELSE "ok"

spinGuard(j, g, t, at) ==
  IF HasTx(j, t) THEN "Transaction already exists"
  ELSE IF g = NoGumball THEN "Gumball not found"
  ELSE IF g.status # "ACTIVE" THEN "Gumball is not active"
  ELSE IF ~g.manualStart /\ at < g.startTime THEN "Gumball has not started yet"
  ELSE IF at > g.endTime THEN "Gumball has ended"
  ELSE IF g.ticketsSold >= g.totalTickets THEN "All tickets have been sold"
  ELSE "ok"

spinResponse(msg) ==
  IF msg = "ok" THEN success
  ELSE error(msg \in {"Invalid payload", "Transaction not confirmed"})

\* one run of the atomic unit of spin: the reads and the guards
spinUnit(c, t, u, retry) ==
  \E at \in Times :
  LET msg == spinGuard(journal, gumball, t, at) IN
  IF msg = "ok"
    THEN Enter(c, "spin", t, u, 0, at,
               [ticketPrice |-> gumball.ticketPrice,
                isNewBuyer |-> ~\E i \in 1..Len(spins) : spins[i].spinnerAddress = u],
               retry)
    ELSE Reply(c, "spin", t, msg)

spin(c) ==
  /\ kind = "gumball"
  /\ Free(c)
  /\ \E t \in Txids, u \in Players, confirmed \in BOOLEAN :
       IF confirmed THEN spinUnit(c, t, u, 0)
       ELSE Reply(c, "spin", t, "Transaction not confirmed")
  /\ UNCHANGED <<kind, store>>

spinCommit(c) ==
  /\ InUnit(c, "spin")
  /\ LET r == calls[c] IN
     IF gumball # NoGumball /\ UniqueTransactionId(journal, r.tx)
       THEN /\ spins' = Append(spins, Spin(r.user))
            /\ gumball' = [gumball EXCEPT
                             !.ticketsSold = @ + 1,
                             !.totalProceeds = @ + r.snap.ticketPrice,
                             !.uniqueBuyers = IF r.snap.isNewBuyer THEN @ + 1 ELSE @]
            /\ journal' = transactionCreate(journal, Row(r.tx, "GUMBALL_SPIN", r.user, Len(spins) + 1))
            /\ Reply(c, r.op, r.tx, "ok")
       ELSE /\ UNCHANGED <<gumball, spins, journal>>
            /\ Reply(c, r.op, r.tx, "P2002")
  /\ UNCHANGED <<kind, prizes, raffleStore, auctionStore>>

\* a catch block that would run the unit again after every conflict
spinConflictForever(c) ==
  /\ InUnit(c, "spin")
  /\ \E d \in Slots \ {c} : calls[d].pc = "unit"
  /\ LET r == calls[c] IN
     /\ calls' = [calls EXCEPT ![c] = Call("retry", "spin", r.tx, r.user, 0, 0, NoSnap, r.retry)]
     /\ UNCHANGED probe
  /\ UNCHANGED <<kind, store>>

\* the store aborts the unit with a write conflict or deadlock (P2034) while
\* another unit is open on the same rows; the catch block of spin runs
spinConflict(c) ==
  /\ InUnit(c, "spin")
  /\ \E d \in Slots \ {c} : calls[d].pc = "unit"
  /\ LET r == calls[c] IN
     IF r.retry < MAX_RETRIES - 1
       THEN /\ calls' = [calls EXCEPT ![c] =
                           Call("retry", "spin", r.tx, r.user, 0, 0, NoSnap, r.retry + 1)]
            /\ UNCHANGED probe
       ELSE Reply(c, "spin", r.tx, "P2034")
  /\ UNCHANGED <<kind, store>>

\* a retry that would apply what the first attempt had read
spinRetryStale(c) ==
  /\ calls[c].pc = "retry"
  /\ Enter(c, "spin", calls[c].tx, calls[c].user, 0, 0,
           [ticketPrice |-> 1, isNewBuyer |-> FALSE], calls[c].retry)
  /\ UNCHANGED <<kind, store>>

\* the while loop of spin runs the unit again after the backoff
spinRetry(c) ==
  /\ calls[c].pc = "retry"
  /\ spinUnit(c, calls[c].tx, calls[c].user, calls[c].retry)
  /\ UNCHANGED <<kind, store>>

\* ---- claimPrize (gumball) ----
claimPrizeGuard(j, sp, p, t, u, spinId, prizeIndex, confirmed) ==
  IF ~confirmed THEN "Transaction not confirmed"
  ELSE IF HasTx(j, t) THEN "Transaction already exists"
  ELSE IF spinId \notin 1..Len(sp) THEN "Spin not found"
  ELSE IF sp[spinId].spinnerAddress # u THEN "User is not the spinner of this spin"
  ELSE IF ~sp[spinId].isPendingClaim THEN "Prize already claimed"
  ELSE IF prizeIndex \notin DOMAIN p THEN "Prize with index prizeIndex not found"
  ELSE IF p[prizeIndex].quantityClaimed >= p[prizeIndex].quantity
    THEN "This prize is no longer available"
  ELSE "ok"

claimPrize(c) ==
  /\ kind = "gumball"
  /\ Free(c)
  /\ \E t \in Txids, u \in Users, i \in 1..(Len(spins) + 1), k \in PrizeIdx, confirmed \in BOOLEAN :
       LET msg == claimPrizeGuard(journal, spins, prizes, t, u, i, k, confirmed) IN
       IF msg = "ok"
         THEN Enter(c, "claimPrize", t, u, i, k, NoSnap, 0)
         ELSE Reply(c, "claimPrize", t, msg)
  /\ UNCHANGED <<kind, store>>

claimPrizeCommit(c) ==
  /\ InUnit(c, "claimPrize")
  /\ LET r == calls[c] IN
     IF r.a \in 1..Len(spins) /\ r.b \in DOMAIN prizes /\ UniqueTransactionId(journal, r.tx)
       THEN /\ spins' = [spins EXCEPT ![r.a] = [@ EXCEPT !.prizeId = r.b, !.isPendingClaim = FALSE]]
            /\ prizes' = [prizes EXCEPT ![r.b] = [@ EXCEPT !.quantityClaimed = @ + 1]]
            /\ journal' = transactionCreate(journal, Row(r.tx, "GUMBALL_CLAIM_PRIZE", r.user, r.a))
            /\ Reply(c, r.op, r.tx, "ok")
       ELSE /\ UNCHANGED <<prizes, spins, journal>>
            /\ Reply(c, r.op, r.tx, "P2002")
  /\ UNCHANGED <<kind, gumball, raffleStore, auctionStore>>

\* ---- the randomness resolver (claimGumballTx, calculateWinner) ----
\* new anchor.BN(Buffer.from(revealedValue.slice(0, 8)), 'le')
LittleEndian(bytes) ==
  LET RECURSIVE V(_)
      V(k) == IF k > Len(bytes) \/ k > 8 THEN 0 ELSE bytes[k] + 256 * V(k + 1)
  IN V(1)

\* (the modulus taken from the length of the prize map)
calculateWinnerModMap(revealedValue, totalItemsAvailable, prizeMap) ==
  IF \A k \in DOMAIN revealedValue : revealedValue[k] = 0
    THEN [error |-> "Randomness not yet resolved"]
    ELSE LET targetPointer == LittleEndian(revealedValue) % Len(prizeMap) IN
         [targetPointer |-> targetPointer,
          winningPrizeIndex |-> prizeMap[targetPointer + 1]]

\* (without the validation of step 1)
calculateWinnerNoValidation(revealedValue, totalItemsAvailable, prizeMap) ==
  LET targetPointer == LittleEndian(revealedValue) % totalItemsAvailable IN
  [targetPointer |-> targetPointer,
   winningPrizeIndex |-> prizeMap[targetPointer + 1]]

\* the pair the function returns, or the Error it throws; a missing value
\* is the empty sequence
calculateWinner(revealedValue, totalItemsAvailable, prizeMap) ==
  IF \A k \in DOMAIN revealedValue : revealedValue[k] = 0
    THEN [error |-> "Randomness not yet resolved"]
    ELSE LET targetPointer == LittleEndian(revealedValue) % totalItemsAvailable IN
         [targetPointer |-> targetPointer,
          winningPrizeIndex |-> prizeMap[targetPointer + 1]]

\* what the ledger holds: the prize map of the gumball machine (one slot per
\* prize item) and the randomness revealed for the spin with id spinId
PrizeMap == <<0, 1>>

TotalItemsAvailable == Len(PrizeMap)

RevealedValue(spinId) == <<spinId, 0, 0, 0, 0, 0, 0, 0>>

\* the prize index that claimGumballTx puts into the claim transaction
WinnerOf(spinId) ==
  calculateWinner(RevealedValue(spinId), TotalItemsAvailable, PrizeMap).winningPrizeIndex

\* a direct call of calculateWinner, and the same call once more
calculateWinnerCall ==
  /\ probe.fn = "calculateWinner" /\ probe.pc = "start"
  /\ probe' = [probe EXCEPT
                 !.pc = "called",
                 !.out = calculateWinner(probe.revealedValue, probe.totalItemsAvailable,
                                         probe.prizeMap)]
  /\ UNCHANGED <<kind, store, calls>>

calculateWinnerAgain ==
  /\ probe.fn = "calculateWinner" /\ probe.pc = "called"
  /\ probe' = [probe EXCEPT
                 !.pc = "done",
                 !.again = calculateWinner(probe.revealedValue, probe.totalItemsAvailable,
                                           probe.prizeMap)]
  /\ UNCHANGED <<kind, store, calls>>

\* claimGumballTx: randomness.loadData()
claimGumballTxLoad ==
  /\ probe.fn = "claimGumballTx" /\ probe.pc = "start"
  /\ probe' = [probe EXCEPT
                 !.revealed = probe.account,
                 !.pc = IF \A k \in DOMAIN probe.account : probe.account[k] = 0
                          THEN "reveal" ELSE "resolve"]
  /\ UNCHANGED <<kind, store, calls>>

\* the reveal transaction is sent and confirmed, or its confirmation reports
\* an error (the throw is answered by the catch block); then loadData() again
claimGumballTxReveal ==
  /\ probe.fn = "claimGumballTx" /\ probe.pc = "reveal"
  /\ \E err \in BOOLEAN :
       probe' = IF err
                  THEN [probe EXCEPT !.pc = "done",
                                     !.out = [status |-> error(FALSE),
                                              error |-> "announceWinners failed"]]
                  ELSE [probe EXCEPT !.pc = "resolve",
                                     !.account = probe.oracle,
                                     !.revealed = probe.oracle]
  /\ UNCHANGED <<kind, store, calls>>

\* calculateWinner on the loaded value; the claim transaction is built for
\* the prize index it returns, and the answer carries both
claimGumballTxResolve ==
  /\ probe.fn = "claimGumballTx" /\ probe.pc = "resolve"
  /\ LET w == calculateWinner(probe.revealed, probe.totalItemsAvailable, probe.prizeMap) IN
     probe' = [probe EXCEPT
                 !.pc = "done",
                 !.out = IF "error" \in DOMAIN w
                           THEN [status |-> error(FALSE), error |-> w.error]
                           ELSE [status |-> success, prizeIndex |-> w.winningPrizeIndex,
                                 base64Transaction |-> <<"claimPrize", w.winningPrizeIndex>>]]
  /\ UNCHANGED <<kind, store, calls>>

\* ---- cancelGumball ----
cancelGumballGuard(g, u, confirmed) ==
  IF ~confirmed THEN "Transaction not confirmed"
  ELSE IF g = NoGumball \/ g.creatorAddress # u THEN "Gumball not found or not owned by user"
  ELSE IF g.ticketsSold > 0 THEN "Cannot cancel gumball with sold tickets"
  ELSE "ok"

cancelGumball(c) ==
  /\ kind = "gumball"
  /\ Free(c)
  /\ \E t \in Txids, u \in Users, confirmed \in BOOLEAN :
       LET msg == cancelGumballGuard(gumball, u, confirmed) IN
       IF msg = "ok"
         THEN Enter(c, "cancelGumball", t, u, 0, 0, NoSnap, 0)
         ELSE Reply(c, "cancelGumball", t, msg)
  /\ UNCHANGED <<kind, store>>

cancelGumballCommit(c) ==
  /\ InUnit(c, "cancelGumball")
  /\ LET r == calls[c] IN
     IF gumball # NoGumball /\ UniqueTransactionId(journal, r.tx)
       THEN /\ gumball' = [gumball EXCEPT !.status = "CANCELLED"]
            /\ journal' = transactionCreate(journal, Row(r.tx, "GUMBALL_CANCEL", r.user, 0))
            /\ Reply(c, r.op, r.tx, "ok")
       ELSE /\ UNCHANGED <<gumball, journal>>
            /\ Reply(c, r.op, r.tx, "P2002")
  /\ UNCHANGED <<kind, prizes, spins, raffleStore, auctionStore>>

\* ---- creatorClaimPrize ----
creatorClaimPrizeGuard(g, p, u, confirmed) ==
  IF ~confirmed THEN "Transaction not confirmed"
  ELSE IF g = NoGumball THEN "Gumball not found"
  ELSE IF g.creatorAddress # u THEN "You are not the creator of this gumball"
  ELSE IF DOMAIN p = {} THEN "No prizes found for this gumball"
  ELSE "ok"

\* the answers of creatorClaimPrize, in the order it calls responseHandler,
\* to the outcome msg of its guards.  A guard inside the unit answers with
\* return responseHandler.error(...): that returns from the callback only,
\* the unit ends without an exception and the handler goes on to
\* responseHandler.success.
creatorClaimPrizeReports(msg) ==
  IF msg = "ok" THEN <<[status |-> success, error |-> "null"]>>
  ELSE IF msg = "Transaction not confirmed" THEN <<[status |-> error(TRUE), error |-> msg]>>
  ELSE <<[status |-> error(TRUE), error |-> msg], [status |-> success, error |-> "null"]>>

creatorClaimPrize(c) ==
  /\ kind = "gumball"
  /\ Free(c)
  /\ \E t \in Txids, u \in Users, confirmed \in BOOLEAN :
       LET msg == creatorClaimPrizeGuard(gumball, prizes, u, confirmed) IN
       IF msg = "ok"
         THEN Enter(c, "creatorClaimPrize", t, u, 0, 0,
                    [toClaim |-> {k \in DOMAIN prizes : ~prizes[k].creatorClaimed}], 0)
         ELSE Reply(c, "creatorClaimPrize", t, creatorClaimPrizeReports(msg))
  /\ UNCHANGED <<kind, store>>

\* the unit has no journal lookup: a repeated transaction id is refused by
\* the key of the journal at the insert
creatorClaimPrizeCommit(c) ==
  /\ InUnit(c, "creatorClaimPrize")
  /\ LET r == calls[c] IN
     IF /\ gumball # NoGumball
        /\ r.snap.toClaim \subseteq DOMAIN prizes
        /\ UniqueTransactionId(journal, r.tx)
       THEN /\ prizes' = [k \in DOMAIN prizes |->
                            IF k \in r.snap.toClaim
                              THEN [prizes[k] EXCEPT !.creatorClaimed = TRUE]
                              ELSE prizes[k]]
            /\ journal' = transactionCreate(journal, Row(r.tx, "GUMBALL_CLAIM_PRIZE", r.user, 0))
            /\ Reply(c, r.op, r.tx, creatorClaimPrizeReports("ok"))
       ELSE /\ UNCHANGED <<prizes, journal>>
            /\ Reply(c, r.op, r.tx, <<[status |-> error(FALSE), error |-> "P2002"]>>)
  /\ UNCHANGED <<kind, gumball, spins, raffleStore, auctionStore>>

\* ---- deleteGumball ----
deleteGumballGuard(g, u) ==
  IF g = NoGumball THEN "Gumball not found"
  ELSE IF g.creatorAddress # u THEN "You are not the creator of this gumball"
  ELSE IF g.ticketsSold > 0 THEN "Cannot delete gumball with sold tickets"
  ELSE "ok"

deleteGumball(c) ==
  /\ kind = "gumball"
  /\ Free(c)
  /\ \E u \in Users :
       LET msg == deleteGumballGuard(gumball, u) IN
       IF msg = "ok"
         THEN EnterUnverified(c, "deleteGumball", 0, u, 0, 0, NoSnap, FALSE)
         ELSE Reply(c, "deleteGumball", 0, msg)
  /\ UNCHANGED <<kind, store>>

deleteGumballCommit(c) ==
  /\ InUnit(c, "deleteGumball")
  /\ \E cascade \in BOOLEAN :
       IF gumball # NoGumball /\ ((prizes = NoPrizes /\ spins = <<>>) \/ cascade)
         THEN /\ gumball' = NoGumball
              /\ prizes' = NoPrizes
              /\ spins' = <<>>
              /\ kind' = "deleted"
              /\ Reply(c, "deleteGumball", 0, "ok")
         ELSE /\ UNCHANGED <<kind, gumball, prizes, spins>>
              /\ Reply(c, "deleteGumball", 0, "P2003")
  /\ UNCHANGED <<journal, raffleStore, auctionStore>>

\* ---- initial stores ----
\* rows committed before the run carry transaction ids outside Txids
TwoPrizes == [k \in PrizeIdx |-> Prize(1, 0)]

\* created, not yet populated
GumballCreated ==
  /\ gumball = Gumball("creator", "INITIALIZED", 1, 2, 1, 0, 0, 0, FALSE, -1)
  /\ prizes = NoPrizes
  /\ spins = <<>>
  /\ journal = <<Row(-1, "GUMBALL_CREATION", "creator", 0)>>

\* two prizes added, activated, nothing sold
GumballOpen ==
  /\ gumball = Gumball("creator", "ACTIVE", 1, 2, 3, 0, 0, 2, FALSE, 0)
  /\ prizes = TwoPrizes
  /\ spins = <<>>
  /\ journal = <<Row(-1, "GUMBALL_CREATION", "creator", 0),
                 Row(-2, "GUMBALL_PRIZE_ADD", "creator", 1),
                 Row(-3, "GUMBALL_PRIZE_ADD", "creator", 1),
                 Row(-4, "GUMBALL_ACTIVATE", "creator", 0)>>

\* two spins sold to alice, both pending
GumballSold ==
  /\ gumball = Gumball("creator", "ACTIVE", 1, 2, 3, 2, 1, 2, FALSE, 0)
  /\ prizes = TwoPrizes
  /\ spins = <<Spin("alice"), Spin("alice")>>
  /\ journal = <<Row(-1, "GUMBALL_CREATION", "creator", 0),
                 Row(-2, "GUMBALL_PRIZE_ADD", "creator", 1),
                 Row(-3, "GUMBALL_PRIZE_ADD", "creator", 1),
                 Row(-4, "GUMBALL_ACTIVATE", "creator", 0),
                 Row(-5, "GUMBALL_SPIN", "alice", 1),
                 Row(-6, "GUMBALL_SPIN", "alice", 2)>>

GumballAbsent ==
  /\ gumball = NoGumball
  /\ prizes = NoPrizes
  /\ spins = <<>>
  /\ journal = <<>>

NoRaffleData == raffle = NoRaffle /\ entries = <<>>

NoAuctionData == auction = NoAuction /\ bids = <<>>

NoGumballData == gumball = NoGumball /\ prizes = NoPrizes /\ spins = <<>>

\* created with createdAt in the past, nothing sold
RaffleOpen ==
  /\ raffle = Raffle("creator", "Active", 0, 1, 2)
  /\ entries = <<>>
  /\ journal = <<Row(-1, "RAFFLE_CREATION", "creator", 0)>>

\* created with startsAt in the past, no bid yet
AuctionOpen ==
  /\ auction = Auction("creator", "ACTIVE", 2, FALSE, 0, "none")
  /\ bids = <<>>
  /\ journal = <<Row(-1, "AUCTION_CREATION", "creator", 0)>>

\* ended by the settlement process with two tickets sold; the winners are
\* drawn (picked) or not yet
RaffleEnded(picked) ==
  /\ raffle = [Raffle("creator", "SuccessEnded", 2, 1, 2) EXCEPT
                 !.winnerPicked = picked,
                 !.winners = IF picked THEN {"alice", "bob"} ELSE {}]
  /\ entries = <<Entry("alice", 1), Entry("bob", 1)>>
  /\ journal = <<Row(-1, "RAFFLE_CREATION", "creator", 0),
                 Row(-2, "RAFFLE_ENTRY", "alice", 1),
                 Row(-3, "RAFFLE_ENTRY", "bob", 1)>>

\* ended by the settlement process with alice as the highest bidder
AuctionCompleted ==
  /\ auction = Auction("creator", "COMPLETED_SUCCESSFULLY", 2, TRUE, 1, "alice")
  /\ bids = <<Bid("alice", 1)>>
  /\ journal = <<Row(-1, "AUCTION_CREATION", "creator", 0),
                 Row(-2, "AUCTION_BID", "alice", 1)>>

\* no call of a table-free function is followed
NoProbe == [fn |-> "none"]

Init ==
  /\ calls = [c \in Slots |-> IdleCall]
  /\ probe = NoProbe
  /\ \/ /\ kind = "raffle"
        /\ NoAuctionData /\ NoGumballData
        /\ \/ NoRaffleData /\ journal = <<>>
           \/ RaffleOpen
           \/ \E picked \in BOOLEAN : RaffleEnded(picked)
     \/ /\ kind = "auction"
        /\ NoRaffleData /\ NoGumballData
        /\ (NoAuctionData /\ journal = <<>>) \/ AuctionOpen \/ AuctionCompleted
     \/ /\ kind = "gumball"
        /\ NoRaffleData /\ NoAuctionData
        /\ GumballAbsent \/ GumballCreated \/ GumballOpen \/ GumballSold

Next ==
  \E c \in Slots :
    \/ createRaffle(c) \/ createRaffleCommit(c)
    \/ cancelRaffle(c) \/ cancelRaffleCommit(c)
    \/ buyTicket(c) \/ buyTicketCommit(c)
    \/ raffleClaimPrize(c) \/ raffleClaimPrizeCommit(c)
    \/ claimTicketAmount(c) \/ claimTicketAmountCommit(c)
    \/ deleteRaffle(c) \/ deleteRaffleCommit(c)
    \/ createAuction(c) \/ createAuctionCommit(c)
    \/ cancelAuction(c) \/ cancelAuctionCommit(c)
    \/ placeBid(c) \/ placeBidCommit(c)
    \/ claimAuction(c) \/ claimAuctionCommit(c)
    \/ deleteAuction(c) \/ deleteAuctionCommit(c)
    \/ createGumball(c) \/ createGumballCommit(c)
    \/ confirmGumballCreation(c) \/ confirmGumballCreationCommit(c)
    \/ activateGumball(c) \/ activateGumballCommit(c)
    \/ updateBuyBackSettings(c) \/ updateBuyBackSettingsCommit(c)
    \/ addPrize(c) \/ addPrizeCommit(c)
    \/ spin(c) \/ spinCommit(c) \/ spinConflict(c) \/ spinRetry(c)
    \/ claimPrize(c) \/ claimPrizeCommit(c)
    \/ cancelGumball(c) \/ cancelGumballCommit(c)
    \/ creatorClaimPrize(c) \/ creatorClaimPrizeCommit(c)
    \/ deleteGumball(c) \/ deleteGumballCommit(c)

Spec == Init /\ [][Next]_vars

\* ---- spin requests alone on a gumball machine ----
\* every request is served: the store answers each open unit (commit or
\* abort), and the timer of the backoff fires
InitSpin == Init /\ kind = "gumball"

NextSpin ==
  \E c \in Slots : spin(c) \/ spinCommit(c) \/ spinConflict(c) \/ spinRetry(c)

FairSpin ==
  \A c \in Slots :
    /\ WF_vars(spinCommit(c) \/ spinConflict(c))
    /\ WF_vars(spinRetry(c))

SpecSpin == InitSpin /\ [][NextSpin]_vars /\ FairSpin

\* ---- the functions that read no table ----
\* the bytes of a revealed value: eight bytes and one beyond them; the
\* empty sequence stands for a missing value
RevealedValues ==
  {<<>>} \cup
  {<<b1, b2, 0, b4, 0, 0, 0, 0, b9>> : b1 \in {0, 1, 10, 255}, b2 \in {0, 1},
                                      b4 \in {0, 1}, b9 \in {0, 1}}

\* a gumball machine's prize map has a slot for every item available
PrizeMaps == {<<7, 3, 9, 1>>, <<0, 1, 1, 0>>}

\* what the oracle writes into the randomness account at the reveal
OracleValues == {<<0, 0, 0, 0, 0, 0, 0, 0, 0>>, <<10, 0, 0, 0, 0, 0, 0, 0, 0>>}

SignatureStatuses ==
  {NoEntry} \cup
  [err : {"null", "InstructionError"},
   confirmationStatus : {"null", "processed", "confirmed", "finalized"}]

InitPure ==
  /\ kind = "none"
  /\ calls = [c \in Slots |-> IdleCall]
  /\ journal = <<>>
  /\ NoRaffleData /\ NoAuctionData /\ NoGumballData
  /\ \/ \E v \in RevealedValues, m \in PrizeMaps, n \in 1..MaxItems :
          /\ n <= Len(m)
          /\ probe = [fn |-> "calculateWinner", pc |-> "start", revealedValue |-> v,
                      totalItemsAvailable |-> n, prizeMap |-> m,
                      out |-> NoSnap, again |-> NoSnap]
     \/ \E v \in RevealedValues, w \in OracleValues, m \in PrizeMaps, n \in 1..MaxItems :
          /\ n <= Len(m)
          /\ probe = [fn |-> "claimGumballTx", pc |-> "start", account |-> v, oracle |-> w,
                      revealed |-> <<>>, totalItemsAvailable |-> n, prizeMap |-> m,
                      out |-> NoSnap]
     \/ \E tx \in SignatureStatuses :
          probe = [fn |-> "verifyTransaction", pc |-> "start", transport |-> "ok",
                   tx |-> tx, out |-> NoSnap]
     \/ probe = [fn |-> "verifyTransaction", pc |-> "start", transport |-> "error",
                 tx |-> NoEntry, out |-> NoSnap]

NextPure ==
  \/ calculateWinnerCall \/ calculateWinnerAgain
  \/ claimGumballTxLoad \/ claimGumballTxReveal \/ claimGumballTxResolve
  \/ verifyTransactionCall

SpecPure == InitPure /\ [][NextPure]_vars

\* ======================= properties =======================
Journaled(t) == \E i \in DOMAIN journal : journal[i].transactionId = t

RowsOfType(type) == {i \in DOMAIN journal : journal[i].type = type}

\* the operations whose atomic unit looks the transaction id up in the journal
LookupOps ==
  {"createRaffle", "buyTicket", "createAuction", "placeBid", "createGumball",
   "confirmGumballCreation", "addPrize", "spin", "claimPrize"}

Stepped(c) == calls'[c] # calls[c]

\* C1: in every reachable state the journal holds at most one row per
\* external transaction id, whatever calls ran and however they interleaved.
C1_JournalUnique ==
  \A i, k \in DOMAIN journal :
    journal[i].transactionId = journal[k].transactionId => i = k

\* a call of an operation that has no journal lookup is about to insert a
\* transaction id that is already journaled
C1_Witness ==
  \E c \in Slots :
    /\ calls[c].pc = "unit"
    /\ calls[c].op \in {"cancelAuction", "cancelRaffle", "activateGumball"}
    /\ Journaled(calls[c].tx)

\* C2: an operation invoked again, after an earlier call with the same
\* transaction id has completed, leaves the store as the first call left it:
\* an operation with a journal lookup never starts its writes, an operation
\* without one has its unit refused at the insert, and no step outside a
\* commit writes anything.
C2_SequentialRepeat ==
  [][\A c \in Slots :
       /\ (calls[c].pc # "unit" /\ calls'[c].pc = "unit" /\ calls'[c].op \in LookupOps)
            => ~Journaled(calls'[c].tx)
       /\ (calls[c].pc = "unit" /\ Stepped(c) /\ calls[c].op \notin LookupOps
             /\ Journaled(calls[c].tx))
            => store' = store
       /\ (calls[c].pc # "unit" /\ Stepped(c)) => store' = store]_vars

\* a buyTicket, spin or placeBid call has committed and every request has
\* been answered: the state in which the same call is invoked again
C2_Witness ==
  /\ \A c \in Slots : calls[c].pc = "idle"
  /\ \E i \in DOMAIN journal :
       /\ journal[i].transactionId \in Txids
       /\ journal[i].type \in {"RAFFLE_ENTRY", "GUMBALL_SPIN", "AUCTION_BID"}

\* C3: of two concurrent calls with the same transaction id, the one that
\* commits second commits nothing, and the one that commits first commits
\* its mutation together with exactly its journal row.
\* (The delete handlers carry no transaction id and are not calls of this
\* kind.)
C3_FirstCommitterWins ==
  [][\A c \in Slots :
       (calls[c].pc = "unit" /\ calls[c].tx \in Txids /\ Stepped(c)) =>
         IF Journaled(calls[c].tx)
           THEN store' = store
           ELSE store' # store =>
                  /\ Len(journal') = Len(journal) + 1
                  /\ SubSeq(journal', 1, Len(journal)) = journal
                  /\ journal'[Len(journal')].transactionId = calls[c].tx]_vars

\* both units read the journal before either inserted, and the other call
\* has committed since
C3_Witness ==
  \E c \in Slots :
    /\ calls[c].pc = "unit"
    /\ calls[c].op \in {"spin", "buyTicket"}
    /\ Journaled(calls[c].tx)

SumEntryRows ==
  LET RECURSIVE S(_)
      S(D) == IF D = {} THEN 0
              ELSE LET i == CHOOSE x \in D : TRUE IN journal[i].n + S(D \ {i})
  IN S(RowsOfType("RAFFLE_ENTRY"))

\* C4: the counters agree with the journal: a raffle's ticketSold is the sum
\* of the quantities of its RAFFLE_ENTRY rows and a gumball's ticketsSold is
\* the number of its GUMBALL_SPIN rows.
C4_CountersAgree ==
  /\ raffle # NoRaffle => raffle.ticketSold = SumEntryRows
  /\ gumball # NoGumball => gumball.ticketsSold = Cardinality(RowsOfType("GUMBALL_SPIN"))

\* C5: ticketSold never exceeds ticketSupply.
C5_TicketSoldWithinSupply ==
  raffle # NoRaffle => raffle.ticketSold <= raffle.ticketSupply

\* two buyTicket units with distinct transaction ids read the same raffle
\* row, and their quantities together exceed what is left
C5_Witness ==
  \E c, d \in Slots :
    /\ c # d
    /\ InUnit(c, "buyTicket") /\ InUnit(d, "buyTicket")
    /\ calls[c].tx # calls[d].tx
    /\ calls[c].snap.ticketSold = calls[d].snap.ticketSold
    /\ calls[c].snap.ticketSold + calls[c].a + calls[d].a > raffle.ticketSupply

\* C6: ticketsSold never exceeds totalTickets.
C6_TicketsSoldWithinTotal ==
  gumball # NoGumball => gumball.ticketsSold <= gumball.totalTickets

\* C7: no prize is claimed more often than its quantity.
\* (stated for the runs in which every spin is claimed at most once, so that
\* the claims counted are claims for different spins)
C7_ClaimedWithinQuantity ==
  (\A i, k \in RowsOfType("GUMBALL_CLAIM_PRIZE") : journal[i].n = journal[k].n => i = k)
    => \A k \in DOMAIN prizes : prizes[k].quantityClaimed <= prizes[k].quantity

Resolved == {i \in DOMAIN spins : ~spins[i].isPendingClaim}

\* C8: a spin is resolved by at most one claim: no spin has two
\* GUMBALL_CLAIM_PRIZE rows, and the prize counters have grown by one per
\* resolved spin.
C8_OneClaimPerSpin ==
  /\ \A i, k \in RowsOfType("GUMBALL_CLAIM_PRIZE") : journal[i].n = journal[k].n => i = k
  /\ SumClaimed(prizes) <= Cardinality(Resolved)

\* C9: a terminal status never changes.
C9_TerminalIsFinal ==
  [][/\ (raffle # NoRaffle /\ raffle.state \in {"SuccessEnded", "FailedEnded", "Cancelled"})
          => (raffle' # NoRaffle => raffle'.state = raffle.state)
     /\ (auction # NoAuction /\ auction.status \in {"COMPLETED_SUCCESSFULLY", "CANCELLED"})
          => (auction' # NoAuction => auction'.status = auction.status)
     /\ (gumball # NoGumball /\ gumball.status = "CANCELLED")
          => (gumball' # NoGumball => gumball'.status = gumball.status)]_vars

\* C10: a cancelled campaign has no participation.
C10_CancelledHasNoParticipation ==
  /\ (raffle # NoRaffle /\ raffle.state = "Cancelled") => raffle.ticketSold = 0
  /\ (auction # NoAuction /\ auction.status = "CANCELLED") => ~auction.hasAnyBid
  /\ (gumball # NoGumball /\ gumball.status = "CANCELLED") => gumball.ticketsSold = 0

\* a call opens its unit (its reads are done and its guards have passed)
Opens(c, op) == calls[c].pc # "unit" /\ calls'[c].pc = "unit" /\ calls'[c].op = op

\* the unit of a call commits and writes
Writes(c) == calls[c].pc = "unit" /\ Stepped(c) /\ store' # store

\* C11: a call writes to the store only if verifyTransaction answers true
\* for its transaction id.
C11_VerifiedBeforeWrite ==
  [][\A c \in Slots : Writes(c) => calls[c].verified]_vars

\* C12: buyTicket, placeBid and spin open their writes only on a campaign
\* that their unit read as Active, and entries, bids and spins are written
\* by the commits of these calls only.
C12_ParticipationOnlyWhenActive ==
  [][/\ \A c \in Slots :
          /\ Opens(c, "buyTicket") => raffle # NoRaffle /\ raffle.state = "Active"
          /\ Opens(c, "placeBid") => auction # NoAuction /\ auction.status = "ACTIVE"
          /\ Opens(c, "spin") => gumball # NoGumball /\ gumball.status = "ACTIVE"
     /\ (entries' # entries /\ raffle' # NoRaffle)
          => \E c \in Slots : InUnit(c, "buyTicket") /\ Stepped(c)
     /\ (bids' # bids /\ auction' # NoAuction)
          => \E c \in Slots : InUnit(c, "placeBid") /\ Stepped(c)
     /\ (Len(spins') # Len(spins) /\ gumball' # NoGumball)
          => \E c \in Slots : InUnit(c, "spin") /\ Stepped(c)]_vars

\* a bid has been committed on an auction that is ACTIVE
C12_Witness ==
  auction # NoAuction /\ auction.status = "ACTIVE" /\ auction.hasAnyBid /\ Len(bids) > 0

\* C13: buyTicket, placeBid and spin open their writes only when the time
\* of the request lies inside the window of the campaign.  (A raffle is
\* Active and an auction ACTIVE only from its start on, so for these the
\* end of the window is what a request can miss.)
C13_OutsideWindowRejected ==
  [][\A c \in Slots :
       /\ Opens(c, "buyTicket") => calls'[c].b <= raffle.endsAt
       /\ Opens(c, "placeBid") => calls'[c].b <= auction.endsAt
       /\ Opens(c, "spin") =>
            gumball.startTime <= calls'[c].b /\ calls'[c].b <= gumball.endTime]_vars

\* C14: the spins sold never outnumber the prizes loaded: ticketsSold is at
\* most the total quantity of the prizes of the gumball.
C14_SpinsWithinPrizes ==
  gumball # NoGumball => gumball.ticketsSold <= SumQuantity(prizes)

\* C15: the prize recorded on a resolved spin is the prize that
\* calculateWinner computes for the spin.
C15_ClaimMatchesResolver ==
  \A i \in DOMAIN spins :
    ~spins[i].isPendingClaim => spins[i].prizeId = WinnerOf(i)

\* C16: a buyTicket or placeBid call that repeats an applied call (same
\* transaction id, caller and arguments) is not answered with a capacity,
\* max-entries or bid-too-low error: its unit reports the duplicate.
C16_DuplicateReported ==
  /\ \A i \in RowsOfType("RAFFLE_ENTRY") :
       journal[i].transactionId \in Txids =>
         buyTicketGuard(journal, raffle, entries, journal[i].transactionId,
                        journal[i].sender, journal[i].n, TRUE)
           \notin {"Quantity exceeds ticket supply", "Quantity exceeds max entries",
                   "Quantity exceeds ticket sold"}
  /\ \A i \in RowsOfType("AUCTION_BID"), at \in Times :
       journal[i].transactionId \in Txids =>
         placeBidGuard(journal, auction, journal[i].transactionId, journal[i].n, at, TRUE)
           \notin {"Bid amount is below reserve price",
                   "Bid amount must be higher than current highest bid",
                   "Bid must be at least bidIncrementPercent% higher than current bid"}

\* C17: a spin or buyTicket call that repeats an applied call (its
\* transaction id is already in the journal) is answered with a success
\* response.
C17_DuplicateIsSuccess ==
  /\ \A i \in RowsOfType("GUMBALL_SPIN"), at \in Times :
       journal[i].transactionId \in Txids =>
         spinResponse(spinGuard(journal, gumball, journal[i].transactionId, at)) = success
  /\ \A i \in RowsOfType("RAFFLE_ENTRY") :
       journal[i].transactionId \in Txids =>
         buyTicketResponse(buyTicketGuard(journal, raffle, entries, journal[i].transactionId,
                                          journal[i].sender, journal[i].n, TRUE)) = success

\* C18: a buyTicket call whose quantity added to the ticketSold it reads
\* exceeds ticketSupply is rejected with the capacity error: no unit is
\* opened for it, and ticketSold and the entries change only through a
\* step of a buyTicket unit that passed the check.
C18_OverSupplyRejected ==
  /\ [](raffle # NoRaffle /\ raffle.state = "Active" =>
          \A t \in Txids, u \in Buyers, q \in 1..MaxQty :
            raffle.ticketSold + q > raffle.ticketSupply =>
              buyTicketGuard(journal, raffle, entries, t, u, q, TRUE)
                = "Quantity exceeds ticket supply")
  /\ [][/\ \A c \in Slots :
             Opens(c, "buyTicket") =>
               raffle.ticketSold + calls'[c].a <= raffle.ticketSupply
        /\ (\/ (entries' # entries /\ raffle' # NoRaffle)
            \/ (raffle # NoRaffle /\ raffle' # NoRaffle
                  /\ raffle'.ticketSold # raffle.ticketSold)
            \/ RowsOfType("RAFFLE_ENTRY")' # RowsOfType("RAFFLE_ENTRY"))
             => \E c \in Slots : InUnit(c, "buyTicket") /\ Stepped(c)]_vars

C18_Witness ==
  /\ raffle # NoRaffle /\ raffle.state = "Active"
  /\ raffle.ticketSold + MaxQty > raffle.ticketSupply
  /\ \E i \in RowsOfType("RAFFLE_ENTRY") : journal[i].transactionId \in Txids

\* C19: activateGumball changes the store only when the gumball it reads has
\* status INITIALIZED, the caller is its creator and prizesAdded is at least
\* minPrizes; its commit sets the status to ACTIVE and sets activatedAt.
C19_ActivateOnlyInitialized ==
  [][\A c \in Slots :
       /\ Opens(c, "activateGumball") =>
            /\ gumball # NoGumball
            /\ gumball.status = "INITIALIZED"
            /\ calls'[c].user = gumball.creatorAddress
            /\ gumball.prizesAdded >= gumball.minPrizes
       /\ (InUnit(c, "activateGumball") /\ Stepped(c) /\ store' # store) =>
            /\ gumball'.status = "ACTIVE"
            /\ gumball'.activatedAt \in Times]_vars

\* C20: a bid accepted on an auction that has a bid is strictly greater than
\* the highest bid h and at least h * (100 + bidIncrementPercent) / 100 in
\* exact arithmetic; an accepted bid is at least the reserve price when one
\* is set.
C20_BidMeetsIncrement ==
  [][\A c \in Slots :
       Opens(c, "placeBid") =>
         /\ auction.reservePrice # 0 => calls'[c].a >= auction.reservePrice
         /\ auction.hasAnyBid =>
              /\ calls'[c].a > auction.highestBidAmount
              /\ calls'[c].a * 100
                   >= auction.highestBidAmount * (100 + auction.bidIncrementPercent)]_vars

\* C21: a bid accepted at time now on an auction with extension window E
\* carries the end time now + E if endsAt - now < E and the endsAt it read
\* otherwise, and no accepted bid lowers the auction's endsAt.
C21_EndsAtNeverDecreases ==
  [][\A c \in Slots :
       /\ Opens(c, "placeBid") =>
            calls'[c].snap.newEndsAt =
              IF auction.endsAt - calls'[c].b < auction.timeExtension
                THEN calls'[c].b + auction.timeExtension
                ELSE auction.endsAt
       /\ (InUnit(c, "placeBid") /\ Stepped(c) /\ bids' # bids) =>
            auction'.endsAt >= auction.endsAt]_vars

\* C22: claimAuction writes an AUCTION_CLAIM row only for an auction that
\* its unit read as COMPLETED_SUCCESSFULLY and for a caller who is the
\* highest bidder or the creator; AUCTION_CLAIM rows are written by the
\* commit of such a call only.
C22_ClaimOnlyWhenCompleted ==
  [][/\ \A c \in Slots :
          Opens(c, "claimAuction") =>
            /\ auction # NoAuction
            /\ auction.status = "COMPLETED_SUCCESSFULLY"
            /\ calls'[c].user \in {auction.highestBidderWallet, auction.createdBy}
     /\ RowsOfType("AUCTION_CLAIM")' # RowsOfType("AUCTION_CLAIM") =>
          \E c \in Slots : InUnit(c, "claimAuction") /\ Stepped(c)]_vars

C22_Witness ==
  /\ auction # NoAuction /\ auction.status = "COMPLETED_SUCCESSFULLY"
  /\ \E i \in RowsOfType("AUCTION_CLAIM") : journal[i].sender = auction.highestBidderWallet
  /\ \E i \in RowsOfType("AUCTION_CLAIM") : journal[i].sender = auction.createdBy

\* C23: the journal holds at most one AUCTION_CLAIM row per caller.
C23_OneAuctionClaimPerCaller ==
  \A i, k \in RowsOfType("AUCTION_CLAIM") :
    journal[i].sender = journal[k].sender => i = k

\* C24: the raffle claimPrize call is accepted only on a raffle that its
\* unit read with state SuccessEnded and winnerPicked true and for a caller
\* in the winners set; raffle.claimed and the RAFFLE_CLAIM rows are written
\* by the commit of such a call only.
C24_RaffleClaimOnlyForWinners ==
  [][/\ \A c \in Slots :
          Opens(c, "raffleClaimPrize") =>
            /\ raffle # NoRaffle
            /\ raffle.state = "SuccessEnded"
            /\ raffle.winnerPicked
            /\ calls'[c].user \in raffle.winners
     /\ (\/ RowsOfType("RAFFLE_CLAIM")' # RowsOfType("RAFFLE_CLAIM")
         \/ (raffle # NoRaffle /\ raffle' # NoRaffle /\ raffle'.claimed # raffle.claimed))
          => \E c \in Slots : InUnit(c, "raffleClaimPrize") /\ Stepped(c)]_vars

C24_Witness ==
  /\ raffle # NoRaffle /\ raffle.state = "SuccessEnded" /\ raffle.winnerPicked
  /\ raffle.claimed > 0
  /\ \E i \in RowsOfType("RAFFLE_CLAIM") : journal[i].sender \in raffle.winners

\* C25: the journal holds at most one RAFFLE_CLAIM row per winner, and
\* raffle.claimed never exceeds numberOfWinners.
C25_OneRaffleClaimPerWinner ==
  /\ \A i, k \in RowsOfType("RAFFLE_CLAIM") :
       journal[i].sender = journal[k].sender => i = k
  /\ raffle # NoRaffle => raffle.claimed <= raffle.numberOfWinners

\* C26: claimTicketAmount opens its writes only on a raffle read with state
\* SuccessEnded, for the creator and with the flag unset; the journal holds
\* at most one RAFFLE_CLAIM_TICKET_AMOUNT row.
C26_TicketAmountOnlyAfterSuccess ==
  /\ [][\A c \in Slots :
          Opens(c, "claimTicketAmount") =>
            /\ raffle # NoRaffle
            /\ raffle.state = "SuccessEnded"
            /\ calls'[c].user = raffle.createdBy
            /\ ~raffle.ticketAmountClaimedByCreator]_vars
  /\ [](Cardinality(RowsOfType("RAFFLE_CLAIM_TICKET_AMOUNT")) <= 1)

\* C27: a raffle, auction or gumball is removed only when it has no
\* participation: no step removes a campaign that has a ticket sold, a bid
\* or a spin.
C27_DeleteOnlyBeforeParticipation ==
  [][/\ (raffle # NoRaffle /\ raffle' = NoRaffle)
          => (raffle.ticketSold = 0 /\ entries = <<>>)
     /\ (auction # NoAuction /\ auction' = NoAuction)
          => (~auction.hasAnyBid /\ bids = <<>>)
     /\ (gumball # NoGumball /\ gumball' = NoGumball)
          => (gumball.ticketsSold = 0 /\ spins = <<>>)]_vars

\* the first eight bytes as an unsigned little-endian integer
U64LE(v) ==
  LET B(k) == IF k <= Len(v) /\ v[k] # 0 THEN v[k] * 256 ^ (k - 1) ELSE 0
  IN B(1) + B(2) + B(3) + B(4) + B(5) + B(6) + B(7) + B(8)

NotAllZero(v) == \E k \in DOMAIN v : v[k] # 0

\* C28: for a revealed value that is not all zero calculateWinner returns
\* targetPointer = (first 8 bytes, little-endian) mod totalItemsAvailable
\* with 0 <= targetPointer < totalItemsAvailable and winningPrizeIndex =
\* prizeMap[targetPointer]; a second call with the same inputs returns the
\* same pair; value 10 with 4 slots and prizeMap [7,3,9,1] gives 2 and 9.
C28_ResolverFormula ==
  (probe.fn = "calculateWinner" /\ probe.pc # "start" /\ NotAllZero(probe.revealedValue)) =>
    /\ probe.out.targetPointer = U64LE(probe.revealedValue) % probe.totalItemsAvailable
    /\ 0 <= probe.out.targetPointer
    /\ probe.out.targetPointer < probe.totalItemsAvailable
    /\ probe.out.winningPrizeIndex = probe.prizeMap[probe.out.targetPointer + 1]
    /\ probe.pc = "done" => probe.again = probe.out
    /\ (/\ probe.revealedValue = <<10, 0, 0, 0, 0, 0, 0, 0, 0>>
        /\ probe.totalItemsAvailable = 4
        /\ probe.prizeMap = <<7, 3, 9, 1>>)
         => probe.out = [targetPointer |-> 2, winningPrizeIndex |-> 9]

\* both calls have returned for a value whose second byte is set
C28_Witness ==
  /\ probe.fn = "calculateWinner" /\ probe.pc = "done"
  /\ Len(probe.revealedValue) = 9
  /\ probe.revealedValue[2] = 1 /\ probe.revealedValue[1] = 10
  /\ probe.totalItemsAvailable = 4
  /\ probe.out.targetPointer = 2

\* C29: calculateWinner rejects a revealed value that is all zero or
\* missing, and claimGumballTx answers with a prize index and a claim
\* transaction only for a loaded value that is not all zero; when the value
\* it resolves is all zero its answer is the error.
C29_NoPrizeFromZero ==
  /\ (probe.fn = "calculateWinner" /\ probe.pc # "start"
        /\ ~NotAllZero(probe.revealedValue))
       => probe.out = [error |-> "Randomness not yet resolved"]
  /\ (probe.fn = "claimGumballTx" /\ probe.pc = "resolve")
       => probe.revealed = probe.account
  /\ (probe.fn = "claimGumballTx" /\ probe.pc = "done") =>
       /\ probe.out.status = success =>
            /\ NotAllZero(probe.revealed)
            /\ probe.out.prizeIndex =
                 probe.prizeMap[(U64LE(probe.revealed) % probe.totalItemsAvailable) + 1]
       /\ ~NotAllZero(probe.revealed) =>
            /\ probe.out.status # success
            /\ "prizeIndex" \notin DOMAIN probe.out
            /\ "base64Transaction" \notin DOMAIN probe.out

\* the reveal went through, the reloaded value is still all zero and the
\* call has ended with the resolver's error
C29_Witness ==
  /\ probe.fn = "claimGumballTx" /\ probe.pc = "done"
  /\ Len(probe.revealed) = 9 /\ ~NotAllZero(probe.revealed)
  /\ probe.out = [status |-> error(FALSE), error |-> "Randomness not yet resolved"]

\* C30: verifyTransaction returns true exactly when the network returns an
\* entry without an execution error whose confirmation status is confirmed
\* or finalized; it returns false for a missing entry, for an entry with an
\* error and for the status processed.
C30_VerifyExactly ==
  (probe.fn = "verifyTransaction" /\ probe.pc = "done") =>
    /\ probe.out = (/\ probe.tx # NoEntry
                    /\ probe.tx.err = "null"
                    /\ probe.tx.confirmationStatus \in {"confirmed", "finalized"})
    /\ probe.tx = NoEntry => probe.out = FALSE
    /\ (probe.tx # NoEntry /\ probe.tx.err # "null") => probe.out = FALSE
    /\ (probe.tx # NoEntry /\ probe.tx.confirmationStatus = "processed") => probe.out = FALSE

\* a finalized entry without an error has been accepted
C30_Witness ==
  /\ probe.fn = "verifyTransaction" /\ probe.pc = "done"
  /\ probe.tx # NoEntry /\ probe.tx.err = "null"
  /\ probe.tx.confirmationStatus = "finalized"
  /\ probe.out = TRUE

\* C31: when the status lookup fails with a transport error, verifyTransaction
\* returns false and does not throw.
C31_TransportErrorReturnsFalse ==
  (probe.fn = "verifyTransaction" /\ probe.transport = "error" /\ probe.pc # "start") =>
    (probe.pc = "done" /\ probe.out = FALSE)

\* C32: createRaffle, createAuction and createGumball write nothing for a
\* request whose end time is not strictly after its start time (equal times
\* included).
C32_EndAfterStart ==
  [][\A c \in Slots :
       (Writes(c) /\ calls[c].op \in {"createRaffle", "createAuction", "createGumball"}) =>
         calls[c].b > calls[c].a]_vars

\* C33: a campaign created by createRaffle, createAuction or createGumball
\* starts Active when its start time is at or before the time the handler
\* reads the clock, and Initialized otherwise; it starts in no other status.
C33_InitialStatus ==
  [][\A c \in Slots :
       LET r == calls[c] IN
       /\ (Writes(c) /\ r.op = "createRaffle" /\ raffle = NoRaffle) =>
            raffle'.state = IF r.a <= r.snap.at THEN "Active" ELSE "Initialized"
       /\ (Writes(c) /\ r.op = "createAuction") =>
            auction'.status = IF r.a <= r.snap.at THEN "ACTIVE" ELSE "INITIALIZED"
       /\ (Writes(c) /\ r.op = "createGumball") =>
            gumball'.status = IF r.a <= r.snap.at THEN "ACTIVE" ELSE "INITIALIZED"]_vars

\* an auction whose start time equals the time of its creation is ACTIVE,
\* a gumball whose start time is still ahead is INITIALIZED
C33_Witness ==
  \/ /\ auction # NoAuction /\ auction.status = "ACTIVE" /\ bids = <<>>
     /\ \E i \in DOMAIN journal : journal[i].type = "AUCTION_CREATION" /\ journal[i].transactionId \in Txids
  \/ /\ gumball # NoGumball /\ gumball.status = "INITIALIZED"
     /\ \E i \in DOMAIN journal : journal[i].type = "GUMBALL_CREATION" /\ journal[i].transactionId \in Txids

\* C34: an accepted spin creates exactly one spin record, without a prize
\* reference and with isPendingClaim = true, adds one to ticketsSold and
\* ticketPrice to totalProceeds, and leaves every prize row unchanged.
C34_SpinReservesOnly ==
  [][\A c \in Slots :
       (Writes(c) /\ calls[c].op = "spin") =>
         /\ Len(spins') = Len(spins) + 1
         /\ SubSeq(spins', 1, Len(spins)) = spins
         /\ spins'[Len(spins')] = [spinnerAddress |-> calls[c].user,
                                   isPendingClaim |-> TRUE, prizeId |-> -1]
         /\ gumball'.ticketsSold = gumball.ticketsSold + 1
         /\ gumball'.totalProceeds = gumball.totalProceeds + gumball.ticketPrice
         /\ prizes' = prizes]_vars

\* a spin submitted by a client has been accepted
C34_Witness ==
  /\ gumball # NoGumball /\ gumball.ticketsSold > 0
  /\ \E i \in DOMAIN journal :
       journal[i].type = "GUMBALL_SPIN" /\ journal[i].transactionId \in Txids

\* C35: one spin call runs its atomic unit at most MAX_RETRIES (3) times; it
\* runs the unit again only after a write conflict (P2034) and then counts
\* the attempt, every other failure of the unit ends the call at once, and
\* every spin call ends.
C35_SpinBoundedRetries ==
  /\ [](\A c \in Slots : calls[c].op = "spin" => calls[c].retry + 1 <= 3)
  /\ [][\A c \in Slots :
         /\ (calls[c].pc # "retry" /\ calls'[c].pc = "retry") =>
              /\ calls[c].pc = "unit" /\ calls[c].op = "spin"
              /\ \E d \in Slots \ {c} : calls[d].pc = "unit"
              /\ calls'[c].retry = calls[c].retry + 1
              /\ store' = store
         /\ (calls[c].pc = "unit" /\ calls[c].op = "spin" /\ Stepped(c)
               /\ calls'[c].pc # "retry" /\ store' = store) =>
              calls'[c].pc = "idle"
         /\ (calls[c].pc = "retry" /\ Stepped(c)) =>
              /\ calls'[c].pc \in {"unit", "idle"}
              /\ calls'[c].pc = "unit" => calls'[c].retry = calls[c].retry]_vars
  /\ \A c \in Slots : (calls[c].pc # "idle") ~> (calls[c].pc = "idle")

\* a spin runs its unit for the third time
C35_Witness ==
  \E c \in Slots : calls[c].op = "spin" /\ calls[c].pc = "unit" /\ calls[c].retry = 2

\* C36: every retry of spin reads the journal and the gumball again and
\* checks every guard again: a retried spin opens its unit only when at that
\* moment the transaction id is not journaled and the gumball exists, is
\* ACTIVE, has not ended and is not sold out; and an attempt of spin either
\* commits the spin record, the counter and the journal row together or
\* changes nothing.
C36_RetryRevalidates ==
  [][\A c \in Slots :
       /\ (calls[c].pc = "retry" /\ calls'[c].pc = "unit") =>
            /\ ~Journaled(calls[c].tx)
            /\ gumball # NoGumball
            /\ gumball.status = "ACTIVE"
            /\ calls'[c].b >= gumball.startTime
            /\ calls'[c].b <= gumball.endTime
            /\ gumball.ticketsSold < gumball.totalTickets
       /\ (calls[c].pc = "retry" /\ Stepped(c)) => store' = store
       /\ (calls[c].pc = "unit" /\ calls[c].op = "spin" /\ Stepped(c)) =>
            \/ store' = store
            \/ /\ Len(spins') = Len(spins) + 1
               /\ gumball'.ticketsSold = gumball.ticketsSold + 1
               /\ Len(journal') = Len(journal) + 1
               /\ journal'[Len(journal')].transactionId = calls[c].tx]_vars

\* a spin waits for its retry while the gumball was cancelled, sold out or
\* its transaction id was journaled by another request
C36_Witness ==
  \E c \in Slots :
    /\ calls[c].pc = "retry"
    /\ \/ Journaled(calls[c].tx)
       \/ gumball = NoGumball
       \/ gumball.status # "ACTIVE"
       \/ gumball.ticketsSold >= gumball.totalTickets

\* C37: maxProceeds = ticketPrice * totalTickets holds for the gumball at its
\* creation and is kept by every step, addPrize in particular.
C37_MaxProceedsFollowsSupply ==
  [][/\ (gumball = NoGumball /\ gumball' # NoGumball) =>
          gumball'.maxProceeds = gumball'.ticketPrice * gumball'.totalTickets
     /\ (gumball # NoGumball /\ gumball' # NoGumball
           /\ gumball.maxProceeds = gumball.ticketPrice * gumball.totalTickets) =>
          gumball'.maxProceeds = gumball'.ticketPrice * gumball'.totalTickets]_vars

\* C38: in an auction that has bids, highestBidAmount is the largest
\* bidAmount of its bid records and highestBidderWallet is the bidder of that
\* bid, and the bid records are strictly increasing in commit order.
C38_HighestBidIsMaximum ==
  (auction # NoAuction /\ bids # <<>>) =>
    /\ \A i \in DOMAIN bids : bids[i].bidAmount <= auction.highestBidAmount
    /\ \E i \in DOMAIN bids :
         /\ bids[i].bidAmount = auction.highestBidAmount
         /\ bids[i].bidderWallet = auction.highestBidderWallet
    /\ \A i \in DOMAIN bids : \A k \in DOMAIN bids :
         i < k => bids[i].bidAmount < bids[k].bidAmount

\* the tickets wallet u holds in the raffle: the sum over its entry records
RECURSIVE TicketsHeld(_, _)
TicketsHeld(es, u) ==
  IF es = <<>> THEN 0
  ELSE (IF es[Len(es)].userAddress = u THEN es[Len(es)].quantity ELSE 0)
         + TicketsHeld(SubSeq(es, 1, Len(es) - 1), u)

\* C39: no wallet holds more tickets in the raffle, summed over its entry
\* records, than the raffle's maxEntries.
C39_WalletWithinMaxEntries ==
  raffle # NoRaffle =>
    \A u \in Buyers : TicketsHeld(entries, u) <= raffle.maxEntries

\* the outcomes of the guards that run inside the atomic unit
UnitRejections ==
  {"Raffle not found", "You are not the creator of this raffle",
   "Ticket amount has already been claimed by the creator",
   "Transaction already exists",
   "Gumball not found", "You are not the creator of this gumball",
   "No prizes found for this gumball"}

\* C40: a claimTicketAmount or creatorClaimPrize request that a guard inside
\* the atomic unit rejects is answered once, with that error, and not also
\* with success.
C40_OneOutcome ==
  /\ kind = "raffle" =>
       \A t \in Txids, u \in Claimants :
         LET msg == claimTicketAmountGuard(journal, raffle, t, u, TRUE) IN
         msg \in UnitRejections =>
           claimTicketAmountReports(msg) = <<[status |-> error(TRUE), error |-> msg]>>
  /\ kind = "gumball" =>
       \A u \in Users :
         LET msg == creatorClaimPrizeGuard(gumball, prizes, u, TRUE) IN
         msg \in UnitRejections =>
           creatorClaimPrizeReports(msg) = <<[status |-> error(TRUE), error |-> msg]>>

====
